---- MODULE Spec2Model ----
(***************************************************************************)
(* League Nexus: the provider clients, caches and ingestion entry points.  *)
(*                                                                         *)
(* The repository holds several independent modules (module singletons    *)
(* that share no state): SleeperClient (src/sleeperclient.js), APIClient   *)
(* with its NodeCache (src/league.js), requestWithRetry                     *)
(* (src/unnamed/part_010), CacheService (src/unnamed/part_008), the        *)
(* ingestion entry points (src/dataingestion.js) and NotificationService   *)
(* (src/notificationservice.js).  A behaviour exercises one of them; the   *)
(* variable "scenario" says which.                                         *)
(*                                                                         *)
(* Time is counted in milliseconds and advances in steps of TickMs.  A     *)
(* timer holds the time that remains before it is due; as in the event     *)
(* loop, a due timer runs at some later step, never before it is due.      *)
(***************************************************************************)
EXTENDS Integers, Sequences, FiniteSets, TLC

VARIABLES
  scenario,       \* which module this behaviour exercises
  retryCfg,       \* the retry limit written in the client's configuration (0 = absent or 0)
  concurrencyCfg, \* the concurrency limit written in the client's configuration
  submitted,      \* number of requests issued so far
  execs,          \* per request: transport calls (axios request) made
  seen,           \* the transport outcome this step delivered, and to which request
  settled,        \* per request: the settlements of its promise, in order
  \* ---- SleeperClient (src/sleeperclient.js)
  queue,          \* this.queue: items {id, retryCount}; wait is what is left of the
                  \* backoff computed when the item was pushed, only503 that
                  \* every failure answered to the request so far was a 503
  flushing,       \* this.flushing
  timers,         \* pending flush callbacks (setImmediate / setTimeout): remaining ms
  limitQueue,     \* p-limit: functions waiting for a slot
  active,         \* p-limit: processItem calls awaiting axios.request
  \* ---- APIClient (src/league.js) and requestWithRetry (src/unnamed/part_010)
  call,           \* per call of request() / requestWithRetry(): provider, method and
                  \* position in the retry loop
  limiterQ,       \* per provider: jobs the Bottleneck limiter holds back
  running,        \* per provider: jobs the limiter has started and that have not settled
  spacing,        \* per provider: ms left before the limiter may start another job
  cache,          \* the NodeCache: per key, the entry and the ms left before it expires
  \* ---- CacheService (src/unnamed/part_008)
  store,          \* this.store: per key, the entry { value, timer } if there is one
  ctimers,        \* the pending setTimeout callbacks: id, key, ms left before due
  got,            \* what the getCache call of this step returned, and for which entry
  \* ---- stableStringify and the cache key (src/league.js)
  descA,          \* params and data of one request() call, keys in insertion order
  descB,          \* params and data of another call
  keyA,           \* the cache key computed for descA
  keyB,           \* the cache key computed for descB
  \* ---- ingestLeagueData / ingestAllLeagues (src/dataingestion.js)
  bulk,           \* the ingestAllLeagues call: its configs, its promise, its results
  runs,           \* the ingestLeagueData calls: config, promise, per-type task, results
  ilimQ,          \* per provider, the jobs waiting in limiters[provider], oldest first
  irunning,       \* per provider, the jobs whose axios call is executing
  ispacing,       \* per provider, the ms left before the limiter may start a job
  redis,          \* the redis server: per key, the value and the ms left to live
  metrics,         \* the prom-client counters
  \* ---- NotificationService (src/notificationservice.js)
  subscriptions,  \* this.subscriptions: per event type, whether it has a subscriber
  eventQueue,     \* this.eventQueue: events {id, type, payload}; payload says whether
                  \* the event has one
  processing,     \* this.processing
  immediates,     \* pending setImmediate(() => this.evaluateEvents()) callbacks
  awaiting,       \* the evaluateEvents loops suspended at await Promise.allSettled:
                  \* the event each holds
  emitted,        \* the ids of the eventProcessed emissions, in order
  queuedN         \* number of events pushed to the queue so far

cfgVars == <<scenario, retryCfg, concurrencyCfg>>
commonVars == <<submitted, execs, seen, settled>>
sleeperVars == <<queue, flushing, timers, limitQueue, active>>

apiVars == <<call, limiterQ, running, spacing, cache>>

cacheVars == <<store, ctimers, got>>
keyVars == <<descA, descB, keyA, keyB>>

ingestVars == <<bulk, runs, ilimQ, irunning, ispacing, redis, metrics>>

notifyVars == <<subscriptions, eventQueue, processing, immediates, awaiting, emitted, queuedN>>

vars == <<cfgVars, commonVars, sleeperVars, apiVars, cacheVars, keyVars, ingestVars, notifyVars>>

(***************************************************************************)
(* Bounds of the model.                                                    *)
(***************************************************************************)
NumReq == 2          \* requests a client is given in one behaviour
MaxRetryCfg == 1     \* retry limits 0..MaxRetryCfg are tried as configuration
MaxConcurrencyCfg == 2   \* concurrency limits 1..MaxConcurrencyCfg are tried
TickMs == 1000       \* one step of the clock
MaxRuns == 2         \* ingestLeagueData calls in one behaviour
NumTypes == 2        \* how many of the data types of dataSchemas an ingestion fetches
MaxEvents == 3       \* events given to queueEvent in one behaviour
MaxNum == 1          \* the numbers 1..MaxNum are the leaves of params and data

ReqIds == 1..NumReq

(***************************************************************************)
(* Transport outcomes.  axios fulfils on a 2xx status and rejects          *)
(* otherwise; a rejection without error.response ("network") is a network  *)
(* error or a timeout.  The other kinds are errors raised by the program.  *)
(***************************************************************************)
Statuses == {200, 404, 429, 503}
Responses == [kind : {"http"}, status : Statuses] \cup {[kind |-> "network", status |-> 0]}
NoResponseYet == [kind |-> "none", status |-> 0]
IsSuccess(r) == r.kind = "http" /\ r.status >= 200 /\ r.status < 300
Is503(r) == r.kind = "http" /\ r.status = 503

\* the payload of a successful call: the upstream's data as fetched by request i
DataOf(i) == i
NoData == 0

NoneSeen == [id |-> 0, resp |-> NoResponseYet]

Max(a, b) == IF a >= b THEN a ELSE b

\* (mutant) 2 * n for Math.pow(2, n)
TimesTwo(n) == 2 * n

\* Math.pow(2, n)
RECURSIVE Pow2(_)
Pow2(n) == IF n = 0 THEN 1 ELSE 2 * Pow2(n - 1)

SeqRange(q) == {q[k] : k \in DOMAIN q}

RemoveAt(s, k) == [j \in 1..(Len(s) - 1) |-> IF j < k THEN s[j] ELSE s[j + 1]]

CommonInit ==
  /\ retryCfg \in 0..MaxRetryCfg
  /\ concurrencyCfg \in 1..MaxConcurrencyCfg
  /\ submitted = 0
  /\ execs = [i \in ReqIds |-> 0]
  /\ seen = NoneSeen
  /\ settled = [i \in ReqIds |-> <<>>]

Bump(f, ids) == [i \in DOMAIN f |-> IF i \in ids THEN f[i] + 1 ELSE f[i]]

(***************************************************************************)
(* SleeperClient (src/sleeperclient.js)                                    *)
(***************************************************************************)
\* const CONCURRENCY = parseInt(sleeperConfig.concurrency, 10) || 5
CONCURRENCY == IF concurrencyCfg # 0 THEN concurrencyCfg ELSE 5

\* const RETRY_LIMIT = parseInt(sleeperConfig.retryLimit, 10) || 3
RETRY_LIMIT == IF retryCfg # 0 THEN retryCfg ELSE 3

\* (mutant) every error status below 600 is taken for retryable
SleeperRetryableBelow600(err) == err.kind # "http" \/ err.status < 600

\* const status = error.response ? error.response.status : null;
\* const isRetryable = status === null || (status >= 500 && status < 600)
SleeperRetryable(err) == err.kind # "http" \/ (err.status >= 500 /\ err.status < 600)

\* (mutant) the limit is compared with <= : one retry too many
SleeperShouldRetryInclusive(retryCount, err) ==
  retryCount <= RETRY_LIMIT /\ SleeperRetryable(err)

\* if (retryCount < RETRY_LIMIT && isRetryable)
SleeperShouldRetry(retryCount, err) == retryCount < RETRY_LIMIT /\ SleeperRetryable(err)

\* const backoff = Math.pow(2, retryCount) * 1000
SleeperBackoff(retryCount) == Pow2(retryCount) * 1000

\* (mutant) a limiter made anew for every flush: it does not count the calls that
\* earlier batches still have running
RECURSIVE PLimitRunPerBatch(_, _)
PLimitRunPerBatch(lq, act) ==
  IF lq # <<>> /\ Cardinality(act \ active) < CONCURRENCY
  THEN PLimitRunPerBatch(Tail(lq), act \cup {Head(lq)})
  ELSE [q |-> lq, a |-> act]

\* (mutant) the function that came last starts first
RECURSIVE PLimitRunNewestFirst(_, _)
PLimitRunNewestFirst(lq, act) ==
  IF lq # <<>> /\ Cardinality(act) < CONCURRENCY
  THEN PLimitRunNewestFirst(SubSeq(lq, 1, Len(lq) - 1), act \cup {lq[Len(lq)]})
  ELSE [q |-> lq, a |-> act]

\* this.limit = pLimit(CONCURRENCY): the waiting functions start, first come first
\* served, while fewer than CONCURRENCY are running
RECURSIVE PLimitRun(_, _)
PLimitRun(lq, act) ==
  IF lq # <<>> /\ Cardinality(act) < CONCURRENCY
  THEN PLimitRun(Tail(lq), act \cup {Head(lq)})
  ELSE [q |-> lq, a |-> act]

\* (mutant) the item is pushed again after every failure, retried or rejected
RequeueAlways(q, item, r, retry) ==
  IF ~IsSuccess(r)
  THEN Append(q, [id |-> item.id, retryCount |-> item.retryCount + 1,
                  wait |-> SleeperBackoff(item.retryCount),
                  only503 |-> item.only503 /\ Is503(r)])
  ELSE q

\* this.queue.push({ ..., resolve, reject, retryCount: nextRetry }) in the retry branch
Requeue(q, item, r, retry) ==
  IF retry
  THEN Append(q, [id |-> item.id, retryCount |-> item.retryCount + 1,
                  wait |-> SleeperBackoff(item.retryCount),
                  only503 |-> item.only503 /\ Is503(r)])
  ELSE q

\* (mutant) only enqueue arms a flush, a retry waits for the next enqueue
ArmFlushOnEnqueueOnly(tm, fl, delay) ==
  IF ~fl /\ delay = 0 THEN Append(tm, delay) ELSE tm

\* if (!this.flushing) { this.flushing = true; setImmediate / setTimeout(flush, delay) }:
\* the pending flush callbacks, each with the time it has left
ArmFlush(tm, fl, delay) == IF ~fl THEN Append(tm, delay) ELSE tm

Started(before, after) == {e.id : e \in after \ before}

SleeperInit ==
  /\ queue = <<>>
  /\ flushing = FALSE
  /\ timers = <<>>
  /\ limitQueue = <<>>
  /\ active = {}

\* enqueue(requestOptions), reached from get / post / put / delete
Enqueue ==
  /\ scenario = "sleeper"
  /\ submitted < NumReq
  /\ submitted' = submitted + 1
  /\ queue' = Append(queue, [id |-> submitted + 1, retryCount |-> 0, wait |-> 0,
                              only503 |-> TRUE])
  /\ timers' = ArmFlush(timers, flushing, 0)
  /\ flushing' = TRUE
  /\ seen' = NoneSeen
  /\ UNCHANGED <<cfgVars, limitQueue, active, execs, settled>>

\* flush(), run by a due setImmediate / setTimeout callback; every function handed
\* to this.limit that finds a free slot calls axios.request
Flush ==
  /\ scenario = "sleeper"
  /\ \E t \in DOMAIN timers :
       /\ timers[t] = 0
       /\ timers' = RemoveAt(timers, t)
  /\ LET run == PLimitRun(limitQueue \o queue, active)
     IN /\ limitQueue' = run.q
        /\ active' = run.a
        /\ execs' = Bump(execs, Started(active, run.a))
  /\ queue' = <<>>
  /\ flushing' = FALSE
  /\ seen' = NoneSeen
  /\ UNCHANGED <<cfgVars, submitted, settled>>

\* processItem(item) from the point where axios.request settles with r, and the
\* release of its p-limit slot to the next waiting function
ProcessItem(item, r) ==
  /\ scenario = "sleeper"
  /\ item \in active
  /\ seen' = [id |-> item.id, resp |-> r]
  /\ LET retry == (~IsSuccess(r)) /\ SleeperShouldRetry(item.retryCount, r)
         run == PLimitRun(limitQueue, active \ {item})
     IN /\ IF retry
           THEN /\ queue' = Requeue(queue, item, r, retry)
                /\ timers' = ArmFlush(timers, flushing, SleeperBackoff(item.retryCount))
                /\ flushing' = TRUE
                /\ UNCHANGED settled
           ELSE /\ settled' = [settled EXCEPT ![item.id] =
                      Append(@, [ok |-> IsSuccess(r), resp |-> r,
                                 attempt |-> item.retryCount,
                                 only503 |-> item.only503,
                                 value |-> IF IsSuccess(r) THEN DataOf(item.id) ELSE NoData])]
                /\ queue' = Requeue(queue, item, r, retry)
                /\ UNCHANGED <<flushing, timers>>
        /\ limitQueue' = run.q
        /\ active' = run.a
        /\ execs' = Bump(execs, Started(active \ {item}, run.a))
  /\ UNCHANGED <<cfgVars, submitted>>

\* the clock advances while a flush timer is pending
SleeperTick ==
  /\ scenario = "sleeper"
  /\ \E t \in DOMAIN timers : timers[t] > 0
  /\ timers' = [t \in DOMAIN timers |-> Max(0, timers[t] - TickMs)]
  /\ queue' = [k \in DOMAIN queue |-> [queue[k] EXCEPT !.wait = Max(0, @ - TickMs)]]
  /\ seen' = NoneSeen
  /\ UNCHANGED <<cfgVars, flushing, limitQueue, active, submitted, execs, settled>>

SleeperNext ==
  \/ Enqueue
  \/ Flush
  \/ \E item \in active, r \in Responses : ProcessItem(item, r)
  \/ SleeperTick

(***************************************************************************)
(* APIClient (src/league.js)                                               *)
(***************************************************************************)
\* config.providers of config.ini; "nope" is a provider it does not hold
KnownProviders == {"espn", "yahoo"}
Providers == KnownProviders \cup {"nope"}
Methods == {"get", "post"}
\* the (provider, method) pairs request() is called with
APICalls == {<<"espn", "get">>, <<"espn", "post">>, <<"yahoo", "get">>, <<"nope", "get">>}

\* method.toUpperCase()
ToUpperCase(m) == IF m = "get" THEN "GET" ELSE IF m = "post" THEN "POST" ELSE m

\* the key of request(): provider, upper-cased method, endpoint, params and data;
\* the calls of one behaviour share endpoint, params and data
CacheKey(p, m) == <<p, ToUpperCase(m)>>
CacheKeys == {CacheKey(p, m) : p \in KnownProviders, m \in Methods}

\* const maxConcurrent = Number(opts.maxConcurrent) || 5
MaxConcurrent == IF concurrencyCfg # 0 THEN concurrencyCfg ELSE 5
\* const minTime = Number(opts.minTime) || 200, with minTime = 1000 in config.ini
MinTime == 1000
\* const maxRetries = Number(config.retries) || 3
MaxRetries == IF retryCfg # 0 THEN retryCfg ELSE 3
\* const backoffBase = Number(config.backoffBase) || 300, with backoffBase = 1000
BackoffBase == 1000
\* const cacheTtl = Number(config.cache?.ttl) || DEFAULT_CACHE_TTL (seconds), with
\* ttl = 2 in config.ini
CacheTtl == 2

\* const delay = backoffBase * Math.pow(2, attempt)
APIDelay(attempt) == BackoffBase * Pow2(attempt)

\* (mutant) an error without a response is not retried
ShouldRetryStatusOnly(err) ==
  IF err.kind = "http" /\ err.status # 0
  THEN err.status >= 500 \/ err.status = 429
  ELSE FALSE

\* _shouldRetry(err)
ShouldRetry(err) ==
  IF err.kind = "http" /\ err.status # 0
  THEN err.status >= 500 \/ err.status = 429
  ELSE TRUE

\* (mutant) the loop gives up one attempt before its last
APIGiveUpEarly(attempt, err) == attempt >= MaxRetries - 2 \/ ~ShouldRetry(err)

\* if (attempt === maxRetries - 1 || !shouldRetry) throw err
APIGiveUp(attempt, err) == attempt = MaxRetries - 1 \/ ~ShouldRetry(err)

ConfigError == [kind |-> "config", status |-> 0]
Absent == [present |-> FALSE, value |-> NoData, left |-> 0]

\* NodeCache.get: an entry past its expiry is deleted and reported as undefined
Fresh(entry) == entry.present /\ entry.left >= 0
CacheGet(c, key) == IF Fresh(c[key]) THEN c[key].value ELSE NoData
CacheAfterGet(c, key) == IF Fresh(c[key]) THEN c ELSE [c EXCEPT ![key] = Absent]

\* response.data, as the schema of its data type would judge it; the client
\* returns and caches it as it comes
Bodies == {"valid", "malformed"}

\* (mutant) every method is read from and written to the cache
CacheableAny(m) == TRUE

\* if (methodUpper === 'GET')
Cacheable(m) == ToUpperCase(m) = "GET"

\* (mutant) an entry that is still fresh is kept, the first writer wins
CacheSetKeepFirst(c, key, v) ==
  IF Fresh(c[key])
  THEN c
  ELSE [c EXCEPT ![key] = [present |-> TRUE, value |-> v, left |-> CacheTtl * 1000]]

\* NodeCache.set with stdTTL
CacheSet(c, key, v) ==
  [c EXCEPT ![key] = [present |-> TRUE, value |-> v, left |-> CacheTtl * 1000]]

\* history: a request of the same provider and method is still on its way when
\* this one is made
InFlight(p, m) ==
  \E j \in ReqIds :
    /\ call[j].provider = p
    /\ call[j].method = m
    /\ call[j].st \in {"queued", "running", "backoff"}

\* (mutant) the job stays in the limiter while the request waits for its retry
JobsHeldInBackoff(jobs, i, retry) == IF retry THEN jobs ELSE jobs \ {i}

\* limiter.schedule(exec) has settled: the job is done for the limiter, whether the
\* loop goes on to a retry or not
JobsAfter(jobs, i, retry) == jobs \ {i}

APIInit ==
  /\ call = [i \in ReqIds |-> [st |-> "idle", provider |-> "nope", method |-> "get",
                               attempt |-> 0, wait |-> 0, only503 |-> TRUE,
                               body |-> "none", raced |-> FALSE]]
  /\ limiterQ = [p \in KnownProviders |-> <<>>]
  /\ running = [p \in KnownProviders |-> {}]
  /\ spacing = [p \in KnownProviders |-> 0]
  /\ cache = [k \in CacheKeys |-> Absent]

Settle(i, ok, r, attempt, v) ==
  [settled EXCEPT ![i] = Append(@, [ok |-> ok, resp |-> r, attempt |-> attempt,
                                    only503 |-> call[i].only503, value |-> v])]

\* request(provider, method, endpoint, params, data) up to its first await
APIRequest(p, m) ==
  /\ scenario = "api"
  /\ submitted < NumReq
  /\ submitted' = submitted + 1
  /\ LET i == submitted + 1
         key == CacheKey(p, m)
         me == [st |-> "idle", provider |-> p, method |-> m, attempt |-> 0, wait |-> 0,
                only503 |-> TRUE, body |-> "none", raced |-> InFlight(p, m)]
     IN IF p \notin KnownProviders
        THEN /\ call' = [call EXCEPT ![i] = [me EXCEPT !.st = "thrown"]]
             /\ settled' = Settle(i, FALSE, ConfigError, 0, NoData)
             /\ UNCHANGED <<limiterQ, cache>>
        ELSE IF Cacheable(m) /\ CacheGet(cache, key) # NoData
        THEN /\ call' = [call EXCEPT ![i] = [me EXCEPT !.st = "returned"]]
             /\ settled' = Settle(i, TRUE, NoResponseYet, 0, CacheGet(cache, key))
             /\ UNCHANGED <<limiterQ, cache>>
        ELSE /\ call' = [call EXCEPT ![i] = [me EXCEPT !.st = "queued"]]
             /\ limiterQ' = [limiterQ EXCEPT ![p] = Append(@, i)]
             /\ cache' = IF Cacheable(m) THEN CacheAfterGet(cache, key) ELSE cache
             /\ UNCHANGED settled
  /\ seen' = NoneSeen
  /\ UNCHANGED <<cfgVars, execs, running, spacing>>

\* Bottleneck({ maxConcurrent, minTime }): the limiter starts its oldest job, which
\* calls this.providers[provider].request
Admit(p) ==
  /\ scenario = "api"
  /\ limiterQ[p] # <<>>
  /\ Cardinality(running[p]) < MaxConcurrent
  /\ spacing[p] = 0
  /\ LET i == Head(limiterQ[p])
     IN /\ limiterQ' = [limiterQ EXCEPT ![p] = Tail(@)]
        /\ running' = [running EXCEPT ![p] = @ \cup {i}]
        /\ call' = [call EXCEPT ![i].st = "running"]
        /\ execs' = Bump(execs, {i})
  /\ spacing' = [spacing EXCEPT ![p] = MinTime]
  /\ seen' = NoneSeen
  /\ UNCHANGED <<cfgVars, submitted, settled, cache>>

\* request(): the body of the for loop once limiter.schedule(exec) has settled with r
APIRespond(i, r, body) ==
  /\ scenario = "api"
  /\ call[i].st = "running"
  /\ IsSuccess(r) <=> body \in Bodies
  /\ LET p == call[i].provider
         attempt == call[i].attempt
         isGet == Cacheable(call[i].method)
     IN /\ running' = [running EXCEPT ![p] =
                         JobsAfter(@, i, ~IsSuccess(r) /\ ~APIGiveUp(attempt, r))]
        /\ seen' = [id |-> i, resp |-> r]
        /\ IF IsSuccess(r)
           THEN /\ cache' = IF isGet
                            THEN CacheSet(cache, CacheKey(p, call[i].method), DataOf(i))
                            ELSE cache
                /\ call' = [call EXCEPT ![i].st = "returned", ![i].body = body]
                /\ settled' = Settle(i, TRUE, r, attempt, DataOf(i))
           ELSE IF APIGiveUp(attempt, r)
           THEN /\ call' = [call EXCEPT ![i].st = "thrown"]
                /\ settled' = Settle(i, FALSE, r, attempt, NoData)
                /\ UNCHANGED cache
           ELSE /\ call' = [call EXCEPT ![i].st = "backoff", ![i].wait = APIDelay(attempt),
                                            ![i].only503 = @ /\ Is503(r)]
                /\ UNCHANGED <<settled, cache>>
  /\ UNCHANGED <<cfgVars, submitted, execs, limiterQ, spacing>>

\* request(): the backoff timer has run, the loop goes to its next attempt and
\* hands exec to the limiter again
APIRetry(i) ==
  /\ scenario = "api"
  /\ call[i].st = "backoff"
  /\ call[i].wait = 0
  /\ call' = [call EXCEPT ![i].st = "queued", ![i].attempt = @ + 1]
  /\ limiterQ' = [limiterQ EXCEPT ![call[i].provider] = Append(@, i)]
  /\ seen' = NoneSeen
  /\ UNCHANGED <<cfgVars, submitted, execs, settled, running, spacing, cache>>

\* the clock advances
APITick ==
  /\ scenario = "api"
  /\ \/ \E p \in KnownProviders : spacing[p] > 0
     \/ \E i \in ReqIds : call[i].st = "backoff" /\ call[i].wait > 0
     \/ \E k \in CacheKeys : Fresh(cache[k])
  /\ spacing' = [p \in KnownProviders |-> Max(0, spacing[p] - TickMs)]
  /\ call' = [i \in ReqIds |-> [call[i] EXCEPT !.wait = Max(0, @ - TickMs)]]
  /\ cache' = [k \in CacheKeys |->
                 IF Fresh(cache[k]) THEN [cache[k] EXCEPT !.left = @ - TickMs] ELSE cache[k]]
  /\ seen' = NoneSeen
  /\ UNCHANGED <<cfgVars, submitted, execs, settled, limiterQ, running>>

APINext ==
  \/ \E c \in APICalls : APIRequest(c[1], c[2])
  \/ \E p \in KnownProviders : Admit(p)
  \/ \E i \in ReqIds, r \in Responses, body \in Bodies \cup {"none"} : APIRespond(i, r, body)
  \/ \E i \in ReqIds : APIRetry(i)
  \/ APITick

(***************************************************************************)
(* requestWithRetry (src/unnamed/part_010), as fetchStandings, fetchMatchups, *)
(* fetchTransactions, fetchDrafts and fetchAnalytics call it: with the     *)
(* default retries and backoff.                                            *)
(***************************************************************************)
\* async function requestWithRetry(config, retries = 3, backoff = 300)
Retries == 3
FetchBackoff == 300

\* (mutant) the loop allows one attempt more
FetchGiveUpLate(attempt, err) ==
  attempt = Retries + 1 \/ (err.kind = "http" /\ err.status # 0 /\ err.status < 500)

\* const status = error.response ? error.response.status : null
\* if (attempt === retries || (status && status < 500)) throw error
FetchGiveUp(attempt, err) ==
  attempt = Retries \/ (err.kind = "http" /\ err.status # 0 /\ err.status < 500)

\* backoff * Math.pow(2, attempt)
FetchDelay(attempt) == FetchBackoff * Pow2(attempt)

\* requestWithRetry(config) up to its first await: the first axiosInstance.request
FetchRequest ==
  /\ scenario = "fetch"
  /\ submitted < NumReq
  /\ submitted' = submitted + 1
  /\ call' = [call EXCEPT ![submitted + 1] =
                [st |-> "running", provider |-> "api", method |-> "get",
                 attempt |-> 0, wait |-> 0, only503 |-> TRUE,
                               body |-> "none", raced |-> FALSE]]
  /\ execs' = Bump(execs, {submitted + 1})
  /\ seen' = NoneSeen
  /\ UNCHANGED <<cfgVars, settled, limiterQ, running, spacing, cache>>

\* the body of the for loop once axiosInstance.request has settled with r
FetchRespond(i, r) ==
  /\ scenario = "fetch"
  /\ call[i].st = "running"
  /\ seen' = [id |-> i, resp |-> r]
  /\ IF IsSuccess(r)
     THEN /\ call' = [call EXCEPT ![i].st = "returned"]
          /\ settled' = Settle(i, TRUE, r, call[i].attempt, DataOf(i))
     ELSE IF FetchGiveUp(call[i].attempt, r)
     THEN /\ call' = [call EXCEPT ![i].st = "thrown"]
          /\ settled' = Settle(i, FALSE, r, call[i].attempt, NoData)
     ELSE /\ call' = [call EXCEPT ![i].st = "backoff", ![i].wait = FetchDelay(call[i].attempt),
                                  ![i].only503 = @ /\ Is503(r)]
          /\ UNCHANGED settled
  /\ UNCHANGED <<cfgVars, submitted, execs, limiterQ, running, spacing, cache>>

\* the backoff timer has run: the next iteration calls axiosInstance.request
FetchRetry(i) ==
  /\ scenario = "fetch"
  /\ call[i].st = "backoff"
  /\ call[i].wait = 0
  /\ call' = [call EXCEPT ![i].st = "running", ![i].attempt = @ + 1]
  /\ execs' = Bump(execs, {i})
  /\ seen' = NoneSeen
  /\ UNCHANGED <<cfgVars, submitted, settled, limiterQ, running, spacing, cache>>

\* the clock advances while a backoff timer is pending
FetchTick ==
  /\ scenario = "fetch"
  /\ \E i \in ReqIds : call[i].st = "backoff" /\ call[i].wait > 0
  /\ call' = [i \in ReqIds |-> [call[i] EXCEPT !.wait = Max(0, @ - TickMs)]]
  /\ seen' = NoneSeen
  /\ UNCHANGED <<cfgVars, submitted, execs, settled, limiterQ, running, spacing, cache>>

FetchNext ==
  \/ FetchRequest
  \/ \E i \in ReqIds, r \in Responses : FetchRespond(i, r)
  \/ \E i \in ReqIds : FetchRetry(i)
  \/ FetchTick

(***************************************************************************)
(* CacheService (src/unnamed/part_008)                                     *)
(***************************************************************************)
CKeys == {"k1", "k2"}
CValues == {1, 2}
\* the ttl arguments of setCache, in seconds; none by default
TTLs == {-1, 0, 1}

\* an entry { value, timer }; ttl is history, the ttl it was stored with
NoEntry == [present |-> FALSE, value |-> NoData, timer |-> 0, ttl |-> 0]
\* what the last call returned: getCache(key) its value, clearCache() (key "*") its count
NoGot == [key |-> "", value |-> NoData, overdue |-> FALSE, count |-> 0]

\* (mutant) every ttl but 0 arms a timer
ExpiresUnlessZero(ttl) == ttl # 0

\* if (ttl > 0)
Expires(ttl) == ttl > 0

\* setTimeout returns a handle no pending timer has
FreshTimerId == CHOOSE n \in 1..(Cardinality(ctimers) + 1) : \A t \in ctimers : t.id # n

\* deleteCache(key): if (entry.timer) clearTimeout(entry.timer); this.store.delete(key)
StoreAfterDelete(st, key) == [st EXCEPT ![key] = NoEntry]
\* (mutant) the timer of the entry is left to run
TimersKept(st, tm, key) == tm

TimersAfterDelete(st, tm, key) ==
  IF st[key].present /\ st[key].timer # 0
  THEN {t \in tm : t.id # st[key].timer}
  ELSE tm

CacheServiceInit ==
  /\ store = [k \in CKeys |-> NoEntry]
  /\ ctimers = {}
  /\ got = NoGot

\* setCache(key, value, ttl)
SetCache(key, value, ttl) ==
  /\ scenario = "cache"
  /\ LET tm == TimersAfterDelete(store, ctimers, key)
         id == FreshTimerId
     IN IF Expires(ttl)
        THEN /\ ctimers' = tm \cup {[id |-> id, key |-> key, left |-> ttl * 1000]}
             /\ store' = [store EXCEPT ![key] =
                            [present |-> TRUE, value |-> value, timer |-> id, ttl |-> ttl]]
        ELSE /\ ctimers' = tm
             /\ store' = [store EXCEPT ![key] =
                            [present |-> TRUE, value |-> value, timer |-> 0, ttl |-> ttl]]
  /\ got' = NoGot

\* getCache(key): return entry ? entry.value : null
GetCache(key) ==
  /\ scenario = "cache"
  /\ got' = [key |-> key,
             value |-> IF store[key].present THEN store[key].value ELSE NoData,
             count |-> 0,
             overdue |-> /\ store[key].present
                         /\ \E t \in ctimers : t.id = store[key].timer /\ t.left < 0]
  /\ UNCHANGED <<store, ctimers>>

\* deleteCache(key)
DeleteCache(key) ==
  /\ scenario = "cache"
  /\ store[key].present
  /\ store' = StoreAfterDelete(store, key)
  /\ ctimers' = TimersAfterDelete(store, ctimers, key)
  /\ got' = NoGot

\* clearCache()
ClearCache ==
  /\ scenario = "cache"
  /\ ctimers' = {t \in ctimers : \A k \in CKeys : ~(store[k].present /\ store[k].timer = t.id)}
  /\ store' = [k \in CKeys |-> NoEntry]
  /\ got' = [NoGot EXCEPT !.key = "*",
                          !.count = Cardinality({k \in CKeys : store[k].present})]

\* a due timer runs its callback: () => { this.deleteCache(key) }
ExpiryTimer(t) ==
  /\ scenario = "cache"
  /\ t \in ctimers
  /\ t.left <= 0
  /\ store' = StoreAfterDelete(store, t.key)
  /\ ctimers' = TimersAfterDelete(store, ctimers, t.key) \ {t}
  /\ got' = NoGot

\* the clock advances; a due timer that has not run yet is overdue
CacheTick ==
  /\ scenario = "cache"
  /\ \E t \in ctimers : t.left >= 0
  /\ ctimers' = {[t EXCEPT !.left = Max(-TickMs, @ - TickMs)] : t \in ctimers}
  /\ got' = NoGot
  /\ UNCHANGED store

CacheServiceNext ==
  \/ \E k \in CKeys, v \in CValues, ttl \in TTLs : SetCache(k, v, ttl)
  \/ \E k \in CKeys : GetCache(k)
  \/ \E k \in CKeys : DeleteCache(k)
  \/ ClearCache
  \/ \E t \in ctimers : ExpiryTimer(t)
  \/ CacheTick

(***************************************************************************)
(* stableStringify and the cache key of APIClient.request (src/league.js). *)
(* A JSON value is a number or an object; an object is the sequence of its *)
(* (key, value) pairs in insertion order, which is the order of            *)
(* Object.keys.  A string is the sequence of its pieces.                   *)
(***************************************************************************)
\* the property names in use, in the order Array.prototype.sort puts them
KeyOrder == <<"a", "b">>
PropNames == SeqRange(KeyOrder)

NumVal(n) == [t |-> "num", n |-> n, o |-> <<>>]
ObjVal(pairs) == [t |-> "obj", n |-> 0, o |-> pairs]

\* the objects with distinct property names and values in Vals, in every order
ObjectsOver(Vals) ==
  {ObjVal(q) : q \in {q \in UNION {[1..n -> [k : PropNames, v : Vals]] : n \in 0..Len(KeyOrder)} :
                        \A i, j \in DOMAIN q : i # j => q[i].k # q[j].k}}

Leaves == {NumVal(n) : n \in 1..MaxNum}
FlatObjects == ObjectsOver(Leaves)
NestedObjects == ObjectsOver(Leaves \cup FlatObjects)

\* JSON.stringify of a number and of a property name
NumberString(n) == <<"num", n>>
QuotedString(k) == <<"str", k>>

\* value[key]
Lookup(pairs, key) == (CHOOSE i \in DOMAIN pairs : pairs[i].k = key)
ValueAt(pairs, key) == pairs[Lookup(pairs, key)].v

\* Object.keys(value) without the sort: insertion order (mutant of SortedKeys)
InsertionKeys(pairs) == [i \in DOMAIN pairs |-> pairs[i].k]

\* Object.keys(value).sort()
SortedKeys(pairs) ==
  SelectSeq(KeyOrder, LAMBDA k : \E i \in DOMAIN pairs : pairs[i].k = k)

\* keys.map(key => JSON.stringify(key) + ':' + stableStringify(value[key])).join(',')
RECURSIVE StableStringify(_)
RECURSIVE JoinProps(_, _)
JoinProps(pairs, keys) ==
  IF keys = <<>> THEN <<>>
  ELSE <<QuotedString(Head(keys)), <<"sym", ":">>>>
       \o StableStringify(ValueAt(pairs, Head(keys)))
       \o (IF Tail(keys) = <<>> THEN <<>> ELSE <<<<"sym", ",">>>>)
       \o JoinProps(pairs, Tail(keys))

\* stableStringify(value)
StableStringify(value) ==
  IF value.t = "num"
  THEN <<NumberString(value.n)>>
  ELSE <<<<"sym", "{">>>> \o JoinProps(value.o, SortedKeys(value.o)) \o <<<<"sym", "}">>>>

\* `${provider}:${methodUpper}:${endpoint}:${stableStringify(params)}:${stableStringify(data)}`
RequestKey(provider, method, endpoint, params, data) ==
  <<<<"str", provider>>, <<"sym", ":">>, <<"str", ToUpperCase(method)>>, <<"sym", ":">>,
    <<"str", endpoint>>, <<"sym", ":">>>>
  \o StableStringify(params) \o <<<<"sym", ":">>>> \o StableStringify(data)

\* the same object written with its properties, at every depth, in another order
RECURSIVE Reorderings(_)
RECURSIVE ReorderedPairs(_)
ReorderedPairs(pairs) ==
  IF pairs = <<>> THEN {<<>>}
  ELSE UNION {{<<[k |-> pairs[i].k, v |-> w]>> \o rest :
                 w \in Reorderings(pairs[i].v), rest \in ReorderedPairs(RemoveAt(pairs, i))} :
              i \in DOMAIN pairs}
Reorderings(value) ==
  IF value.t = "num" THEN {value} ELSE {ObjVal(q) : q \in ReorderedPairs(value.o)}

NoKey == <<>>

KeyInit ==
  /\ descA = [params |-> ObjVal(<<>>), data |-> ObjVal(<<>>)]
  /\ descB = descA
  /\ keyA = NoKey
  /\ keyB = NoKey

\* two request() calls for the same provider, method and endpoint: one with params
\* and data, one with the same params and data written in another order
RequestTwice(params, data, params2, data2) ==
  /\ descA' = [params |-> params, data |-> data]
  /\ descB' = [params |-> params2, data |-> data2]
  /\ keyA' = RequestKey("espn", "get", "/leagues/1/standings", params, data)
  /\ keyB' = RequestKey("espn", "get", "/leagues/1/standings", params2, data2)

KeyNext ==
  /\ scenario = "key"
  /\ keyA = NoKey
  /\ \E params \in NestedObjects, data \in FlatObjects :
       \E params2 \in Reorderings(params), data2 \in Reorderings(data) :
         RequestTwice(params, data, params2, data2)

(***************************************************************************)
(* Data ingestion (src/dataingestion.js)                                   *)
(***************************************************************************)
\* Object.keys(dataSchemas)
AllDataTypes == <<"standings", "matchups", "transactions", "draft", "analytics">>
DataTypes == SubSeq(AllDataTypes, 1, NumTypes)
TypeSet == SeqRange(DataTypes)

\* Joi.string().valid('yahoo', 'espn', 'sleeper', 'nfl', 'mfl')
IngestProviders == {"yahoo", "espn", "sleeper", "nfl", "mfl"}

\* limiters
LimiterMaxConcurrent(p) ==
  CASE p \in {"yahoo", "espn"} -> 2
    [] p = "sleeper" -> 5
    [] OTHER -> 1
LimiterMinTime(p) ==
  CASE p \in {"yahoo", "espn"} -> 500
    [] p = "sleeper" -> 200
    [] OTHER -> 1000

\* the raw configs handed in: two leagues with the same id at two providers, and a
\* config of a provider that is not supported
LeagueConfigs ==
  {[id |-> 1, provider |-> "espn", credentials |-> TRUE, cacheTTL |-> 1],
   [id |-> 1, provider |-> "nfl", credentials |-> TRUE, cacheTTL |-> 2],
   [id |-> 2, provider |-> "aol", credentials |-> TRUE, cacheTTL |-> 1]}
NoConfig == [id |-> 0, provider |-> "", credentials |-> FALSE, cacheTTL |-> 0]
ConfigLists == UNION {[1..n -> LeagueConfigs] : n \in 1..MaxRuns}

\* (mutant) the provider of the config is not checked
ConfigValidAnyProvider(cfg) == cfg.id # 0 /\ cfg.credentials

\* leagueConfigSchema.validate(rawConfig).error is undefined
ConfigValid(cfg) == cfg.id # 0 /\ cfg.provider \in IngestProviders /\ cfg.credentials

\* league.settings.cacheTTL || 300
RedisTTL(cfg) == IF cfg.cacheTTL # 0 THEN cfg.cacheTTL ELSE 300

\* `league:${league.id}:${type}`
RedisKey(cfg, type) == <<"league", cfg.id, type>>
RedisKeys == {RedisKey(c, t) : c \in LeagueConfigs, t \in TypeSet}
NoRedisEntry == [present |-> FALSE, value |-> NoData, left |-> 0]

\* what one axios get, followed by dataSchemas[type].validate, comes to
FetchOutcomes == {"valid", "invalid", "error"}

RunIds == 1..MaxRuns
NoResults == [t \in TypeSet |-> NoData]
IdleRun ==
  [st |-> "idle", cfg |-> NoConfig, error |-> "none",
   task |-> [t \in TypeSet |-> "none"], results |-> NoResults,
   cached |-> [t \in TypeSet |-> FALSE]]
Used(rs) == Cardinality({r \in RunIds : rs[r].st # "idle"})

\* (mutant) ingestAllLeagues without its try / catch
LeagueTaskNoCatch(run) ==
  CASE run.st = "fulfilled" ->
         [st |-> "fulfilled", league |-> run.cfg.id, data |-> <<run.results>>, error |-> "none"]
    [] run.st = "rejected" ->
         [st |-> "rejected", league |-> run.cfg.id, data |-> <<>>, error |-> run.error]
    [] OTHER -> [st |-> "pending", league |-> run.cfg.id, data |-> <<>>, error |-> "none"]

\* ingestAllLeagues: the async function mapped over configs.  data is <<>> for null
LeagueTask(run) ==
  CASE run.st = "fulfilled" ->
         [st |-> "fulfilled", league |-> run.cfg.id, data |-> <<run.results>>, error |-> "none"]
    [] run.st = "rejected" ->
         [st |-> "fulfilled", league |-> run.cfg.id, data |-> <<>>, error |-> run.error]
    [] OTHER -> [st |-> "pending", league |-> run.cfg.id, data |-> <<>>, error |-> "none"]

NoBulk == [st |-> "none", configs |-> <<>>, first |-> 0, results |-> <<>>, error |-> "none"]
BulkRuns(b) == {b.first + k : k \in 0..(Len(b.configs) - 1)}

\* return Promise.all(tasks)
BulkAfter(b, rs) ==
  IF b.st # "pending" THEN b
  ELSE IF \E r \in BulkRuns(b) : LeagueTask(rs[r]).st = "rejected"
  THEN [b EXCEPT !.st = "rejected",
                 !.error = LeagueTask(rs[CHOOSE r \in BulkRuns(b) :
                                            LeagueTask(rs[r]).st = "rejected"]).error]
  ELSE IF \A r \in BulkRuns(b) : LeagueTask(rs[r]).st = "fulfilled"
  THEN [b EXCEPT !.st = "resolved",
                 !.results = [k \in 1..Len(b.configs) |->
                                [league |-> LeagueTask(rs[b.first + k - 1]).league,
                                 data |-> LeagueTask(rs[b.first + k - 1]).data,
                                 error |-> LeagueTask(rs[b.first + k - 1]).error]]]
  ELSE b

\* ingestLeagueData: await Promise.all(...) settles, the try block returns or the
\* catch block rethrows
RunAfter(run, error) ==
  IF run.st # "pending" THEN run
  ELSE IF error # "none" THEN [run EXCEPT !.st = "rejected", !.error = error]
  ELSE IF \A t \in TypeSet : run.task[t] = "done" THEN [run EXCEPT !.st = "fulfilled"]
  ELSE run

\* (mutant) the catch block does not count the failure
MetricsAfterNoFailure(m, rs, rs2) ==
  [m EXCEPT !.success = @ + Cardinality({r \in RunIds : rs[r].st = "pending"
                                                         /\ rs2[r].st = "fulfilled"})]

\* ingestionSuccess.inc() / ingestionFailure.inc() of the runs that settle in this step
MetricsAfter(m, rs, rs2) ==
  [m EXCEPT !.success = @ + Cardinality({r \in RunIds : rs[r].st = "pending"
                                                         /\ rs2[r].st = "fulfilled"}),
            !.failure = @ + Cardinality({r \in RunIds : rs[r].st = "pending"
                                                         /\ rs2[r].st = "rejected"})]

\* ingestLeagueData(rawConfig) up to its first await
StartRun(cfg, rd) ==
  IF ~ConfigValid(cfg)
  THEN [IdleRun EXCEPT !.st = "rejected", !.cfg = cfg, !.error = "config"]
  ELSE [IdleRun EXCEPT !.st = "pending", !.cfg = cfg,
                       !.task = [t \in TypeSet |-> "queued"],
                       !.cached = [t \in TypeSet |-> rd[RedisKey(cfg, t)].present]]

\* the jobs the calls for cfgs[k..] hand to limiters[p], in the order of the calls
RECURSIVE NewJobs(_, _, _, _)
NewJobs(cfgs, first, p, k) ==
  IF k > Len(cfgs) THEN <<>>
  ELSE (IF ConfigValid(cfgs[k]) /\ cfgs[k].provider = p
        THEN [n \in 1..Len(DataTypes) |-> <<first + k - 1, DataTypes[n]>>]
        ELSE <<>>)
       \o NewJobs(cfgs, first, p, k + 1)

IngestInit ==
  /\ bulk = NoBulk
  /\ runs = [r \in RunIds |-> IdleRun]
  /\ ilimQ = [p \in IngestProviders |-> <<>>]
  /\ irunning = [p \in IngestProviders |-> {}]
  /\ ispacing = [p \in IngestProviders |-> 0]
  /\ redis = [k \in RedisKeys |-> NoRedisEntry]
  /\ metrics = [requests |-> 0, success |-> 0, failure |-> 0]

\* ingestAllLeagues(configs)
IngestAllLeagues(cfgs) ==
  /\ scenario = "ingest"
  /\ bulk.st # "pending"
  /\ Used(runs) + Len(cfgs) <= MaxRuns
  /\ LET first == Used(runs) + 1
         rs == [r \in RunIds |->
                  IF r >= first /\ r < first + Len(cfgs)
                  THEN StartRun(cfgs[r - first + 1], redis)
                  ELSE runs[r]]
     IN /\ runs' = rs
        /\ ilimQ' = [p \in IngestProviders |-> ilimQ[p] \o NewJobs(cfgs, first, p, 1)]
        /\ metrics' = [metrics EXCEPT
                         !.requests = @ + Len(cfgs),
                         !.failure = @ + Cardinality({k \in DOMAIN cfgs : ~ConfigValid(cfgs[k])})]
        /\ bulk' = BulkAfter([NoBulk EXCEPT !.st = "pending", !.configs = cfgs,
                                            !.first = first], rs)
  /\ UNCHANGED <<irunning, ispacing, redis>>

\* (mutant) one Bottleneck shared by all the providers
SlotFreeShared(p) ==
  Cardinality(UNION {irunning[q] : q \in IngestProviders}) < LimiterMaxConcurrent(p)

\* limiters[provider] has fewer than maxConcurrent jobs running
SlotFree(p) == Cardinality(irunning[p]) < LimiterMaxConcurrent(p)

\* limiters[provider].schedule(fn): the limiter starts its oldest job, which calls
\* axiosInstances[provider].get
IngestAdmit(p) ==
  /\ scenario = "ingest"
  /\ ilimQ[p] # <<>>
  /\ SlotFree(p)
  /\ ispacing[p] = 0
  /\ LET job == Head(ilimQ[p])
     IN /\ ilimQ' = [ilimQ EXCEPT ![p] = Tail(@)]
        /\ irunning' = [irunning EXCEPT ![p] = @ \cup {job}]
        /\ runs' = [runs EXCEPT ![job[1]].task[job[2]] = "executing"]
  /\ ispacing' = [ispacing EXCEPT ![p] = LimiterMinTime(p)]
  /\ UNCHANGED <<bulk, redis, metrics>>

\* the task of one data type, from the answer of the provider to its redis.set call
IngestRespond(r, type, outcome) ==
  /\ scenario = "ingest"
  /\ runs[r].task[type] = "executing"
  /\ irunning' = [irunning EXCEPT ![runs[r].cfg.provider] = @ \ {<<r, type>>}]
  /\ LET rs == [runs EXCEPT ![r] =
                  CASE outcome = "valid" -> [@ EXCEPT !.task[type] = "storing"]
                    [] outcome = "invalid" ->
                         RunAfter([@ EXCEPT !.task[type] = "invalid"], "validation")
                    [] OTHER -> RunAfter([@ EXCEPT !.task[type] = "failed"], "transport")]
     IN /\ runs' = rs
        /\ metrics' = MetricsAfter(metrics, runs, rs)
        /\ bulk' = BulkAfter(bulk, rs)
  /\ UNCHANGED <<ilimQ, ispacing, redis>>

\* redis.set(cacheKey, JSON.stringify(sanitizedData), 'EX', ttl) settles, and the
\* task goes on to results[type] = sanitizedData
RedisReply(r, type, ok) ==
  /\ scenario = "ingest"
  /\ runs[r].task[type] = "storing"
  /\ LET rs == [runs EXCEPT ![r] =
                  IF ok
                  THEN RunAfter([@ EXCEPT !.task[type] = "done", !.results[type] = DataOf(r)],
                                "none")
                  ELSE RunAfter([@ EXCEPT !.task[type] = "unstored"], "redis")]
     IN /\ runs' = rs
        /\ metrics' = MetricsAfter(metrics, runs, rs)
        /\ bulk' = BulkAfter(bulk, rs)
  /\ redis' = IF ok
              THEN [redis EXCEPT ![RedisKey(runs[r].cfg, type)] =
                      [present |-> TRUE, value |-> DataOf(r),
                       left |-> RedisTTL(runs[r].cfg) * 1000]]
              ELSE redis
  /\ UNCHANGED <<ilimQ, irunning, ispacing>>

\* the clock advances; redis drops the keys whose time to live is over
IngestTick ==
  /\ scenario = "ingest"
  /\ \/ \E p \in IngestProviders : ispacing[p] > 0
     \/ \E k \in RedisKeys : redis[k].present
  /\ ispacing' = [p \in IngestProviders |-> Max(0, ispacing[p] - TickMs)]
  /\ redis' = [k \in RedisKeys |->
                 IF redis[k].present /\ redis[k].left > TickMs
                 THEN [redis[k] EXCEPT !.left = @ - TickMs]
                 ELSE NoRedisEntry]
  /\ UNCHANGED <<bulk, runs, ilimQ, irunning, metrics>>

IngestNext ==
  \/ \E cfgs \in ConfigLists : IngestAllLeagues(cfgs)
  \/ \E p \in IngestProviders : IngestAdmit(p)
  \/ \E r \in RunIds, t \in TypeSet, o \in FetchOutcomes : IngestRespond(r, t, o)
  \/ \E r \in RunIds, t \in TypeSet, ok \in BOOLEAN : RedisReply(r, t, ok)
  \/ IngestTick

(***************************************************************************)
(* The specification.  Only SleeperClient and APIClient read config.ini.   *)
(***************************************************************************)
(***************************************************************************)
(* NotificationService (src/notificationservice.js): queueEvent and the    *)
(* evaluateEvents loop.  There is one user; an event is its id, its type   *)
(* and whether it carries a payload.                                       *)
(***************************************************************************)
\* "" stands for an event without a type; "custom" takes the default branch of
\* _formatMessage
EventTypes == {"", "matchupStart", "custom"}
NoEvent == [id |-> 0, type |-> "", payload |-> FALSE]

\* _formatMessage(type, payload) throws a TypeError: payload.matchupId, payload.details
\* and payload.week read a property of undefined; JSON.stringify(undefined) does not
FormatThrows(e) == e.type = "matchupStart" /\ ~e.payload

\* evaluateEvents from the top of its while loop to the point where it is suspended
\* at await Promise.allSettled(tasks), returns, or throws
RECURSIVE Loop(_, _, _)
Loop(q, em, subs) ==
  IF q = <<>>
  THEN [st |-> "done", queue |-> q, emitted |-> em, held |-> NoEvent]
  ELSE IF subs[Head(q).type]
  THEN IF FormatThrows(Head(q))
       THEN [st |-> "thrown", queue |-> Tail(q), emitted |-> em, held |-> NoEvent]
       ELSE [st |-> "awaiting", queue |-> Tail(q), emitted |-> em, held |-> Head(q)]
  ELSE Loop(Tail(q), Append(em, Head(q).id), subs)

NotifyInit ==
  /\ subscriptions = [t \in EventTypes |-> FALSE]
  /\ eventQueue = <<>>
  /\ processing = FALSE
  /\ immediates = 0
  /\ awaiting = <<>>
  /\ emitted = <<>>
  /\ queuedN = 0

\* subscribe(userId, eventType) / unsubscribe(userId, eventType)
Subscribe(type, on) ==
  /\ scenario = "notify"
  /\ type # ""
  /\ subscriptions[type] # on
  /\ subscriptions' = [subscriptions EXCEPT ![type] = on]
  /\ UNCHANGED <<eventQueue, processing, immediates, awaiting, emitted, queuedN>>

\* queueEvent(event)
QueueEvent(type, payload) ==
  /\ scenario = "notify"
  /\ queuedN < MaxEvents
  /\ IF type = ""
     THEN UNCHANGED <<eventQueue, processing, immediates, queuedN>>
     ELSE /\ eventQueue' = Append(eventQueue,
                                  [id |-> queuedN + 1, type |-> type, payload |-> payload])
          /\ queuedN' = queuedN + 1
          /\ processing' = TRUE
          /\ immediates' = IF ~processing THEN immediates + 1 ELSE immediates
  /\ UNCHANGED <<subscriptions, awaiting, emitted>>

\* what evaluateEvents leaves when it runs on from the top of the while loop, beside
\* the other loops that are suspended
LoopOn(em, others) ==
  LET run == Loop(eventQueue, em, subscriptions)
  IN /\ eventQueue' = run.queue
     /\ emitted' = run.emitted
     /\ awaiting' = IF run.st = "awaiting" THEN Append(others, run.held) ELSE others
     /\ processing' = IF run.st = "done" THEN FALSE ELSE processing

\* the setImmediate callback: evaluateEvents() is called
EvaluateEvents ==
  /\ scenario = "notify"
  /\ immediates > 0
  /\ immediates' = immediates - 1
  /\ LoopOn(emitted, awaiting)
  /\ UNCHANGED <<subscriptions, queuedN>>

\* Promise.allSettled(tasks) of loop k has settled: this.emit('eventProcessed', event),
\* and the loop goes on
Resume(k) ==
  /\ scenario = "notify"
  /\ k \in DOMAIN awaiting
  /\ LoopOn(Append(emitted, awaiting[k].id), RemoveAt(awaiting, k))
  /\ UNCHANGED <<subscriptions, immediates, queuedN>>

NotifyNext ==
  \/ \E t \in EventTypes, on \in BOOLEAN : Subscribe(t, on)
  \/ \E t \in EventTypes, payload \in BOOLEAN : QueueEvent(t, payload)
  \/ EvaluateEvents
  \/ \E k \in DOMAIN awaiting : Resume(k)

Init ==
  /\ scenario \in {"sleeper", "api", "fetch", "cache", "key", "ingest", "notify"}
  /\ CommonInit
  /\ scenario \notin {"sleeper", "api"} => retryCfg = 0 /\ concurrencyCfg = 1
  /\ SleeperInit
  /\ APIInit
  /\ CacheServiceInit
  /\ KeyInit
  /\ IngestInit
  /\ NotifyInit

Next ==
  \/ SleeperNext /\ UNCHANGED <<apiVars, cacheVars, keyVars, ingestVars, notifyVars>>
  \/ APINext /\ UNCHANGED <<sleeperVars, cacheVars, keyVars, ingestVars, notifyVars>>
  \/ FetchNext /\ UNCHANGED <<sleeperVars, cacheVars, keyVars, ingestVars, notifyVars>>
  \/ CacheServiceNext
       /\ UNCHANGED <<cfgVars, commonVars, sleeperVars, apiVars, keyVars, ingestVars, notifyVars>>
  \/ KeyNext
       /\ UNCHANGED <<cfgVars, commonVars, sleeperVars, apiVars, cacheVars, ingestVars, notifyVars>>
  \/ IngestNext
       /\ UNCHANGED <<cfgVars, commonVars, sleeperVars, apiVars, cacheVars, keyVars, notifyVars>>
  \/ NotifyNext
       /\ UNCHANGED <<cfgVars, commonVars, sleeperVars, apiVars, cacheVars, keyVars, ingestVars>>

Spec == Init /\ [][Next]_vars

(***************************************************************************)
(* SleeperClient on its own, with the scheduling of Node: a flush callback *)
(* that is due is run, time passes while a timer is pending, and every     *)
(* call of axios.request settles (the timeout of the axios instance).      *)
(***************************************************************************)
SleeperStart == Init /\ scenario = "sleeper"

SleeperFlush == Flush /\ UNCHANGED <<apiVars, cacheVars, keyVars, ingestVars, notifyVars>>

SleeperSettle ==
  (\E item \in active, r \in Responses : ProcessItem(item, r))
  /\ UNCHANGED <<apiVars, cacheVars, keyVars, ingestVars, notifyVars>>

SleeperClock == SleeperTick /\ UNCHANGED <<apiVars, cacheVars, keyVars, ingestVars, notifyVars>>

SleeperStep ==
  \/ Enqueue /\ UNCHANGED <<apiVars, cacheVars, keyVars, ingestVars, notifyVars>>
  \/ SleeperFlush
  \/ SleeperSettle
  \/ SleeperClock

SleeperFairness ==
  /\ WF_vars(SleeperFlush)
  /\ WF_vars(SleeperClock)
  /\ WF_vars(SleeperSettle)

SleeperSpec == SleeperStart /\ [][SleeperStep]_vars /\ SleeperFairness

(***************************************************************************)
(* What the properties below speak of.                                     *)
(***************************************************************************)
\* the retry ceiling the client under exercise has resolved from its configuration
Ceiling ==
  CASE scenario = "sleeper" -> RETRY_LIMIT
    [] scenario = "api" -> MaxRetries
    [] OTHER -> Retries

SleeperItems == SeqRange(queue) \cup SeqRange(limitQueue) \cup active

\* the request still has an attempt queued, executing or waiting for its backoff
Pending(i) ==
  IF scenario = "sleeper"
  THEN \E e \in SleeperItems : e.id = i
  ELSE call[i].st \in {"queued", "running", "backoff"}

SetMax(S) == IF S = {} THEN 0 ELSE CHOOSE x \in S : \A y \in S : y <= x

\* the request's attempt counter: item.retryCount, or attempt of the for loop
AttemptCount(i) ==
  IF scenario = "sleeper"
  THEN SetMax({e.retryCount : e \in {x \in SleeperItems : x.id = i}}
              \cup {settled[i][k].attempt : k \in DOMAIN settled[i]})
  ELSE call[i].attempt

Transient(r) == r.kind = "network" \/ (r.kind = "http" /\ r.status >= 500 /\ r.status <= 599)
ClientError(r) == r.kind = "http" /\ r.status >= 400 /\ r.status <= 499 /\ r.status # 429

(***************************************************************************)
(* C1. Bounded concurrency: the transport calls of one limiter that are    *)
(* executing at the same instant never number more than its concurrency    *)
(* limit: the p-limit of SleeperClient, each provider's Bottleneck of      *)
(* APIClient and each provider's Bottleneck of the ingestion, whatever is  *)
(* enqueued, retried or flushed meanwhile.                                 *)
(***************************************************************************)
C1_BoundedConcurrency ==
  /\ Cardinality(active) <= CONCURRENCY
  /\ \A p \in KnownProviders : Cardinality(running[p]) <= MaxConcurrent
  /\ \A p \in IngestProviders : Cardinality(irunning[p]) <= LimiterMaxConcurrent(p)

\* more requests than slots were issued: the limit is reached and a call waits
C1_Witness ==
  /\ scenario = "sleeper"
  /\ Cardinality(active) = CONCURRENCY
  /\ limitQueue # <<>>

(***************************************************************************)
(* C2. Retry ceiling: no request is executed more than ceiling + 1 times,  *)
(* its attempt counter never exceeds the ceiling, and a step leaves the    *)
(* counter as it is or adds one to it.  The ceiling is the limit the       *)
(* client resolved from its configuration (RETRY_LIMIT, maxRetries,        *)
(* retries).                                                               *)
(***************************************************************************)
C2_Bound ==
  \A i \in ReqIds : execs[i] <= Ceiling + 1 /\ AttemptCount(i) <= Ceiling

C2_Step ==
  \A i \in ReqIds : AttemptCount(i)' \in {AttemptCount(i), AttemptCount(i) + 1}

C2_RetryCeiling == [](C2_Bound) /\ [][C2_Step]_vars

\* a request that failed at every attempt: ceiling + 1 executions, counter at the ceiling
C2_Witness ==
  \E i \in ReqIds :
    /\ execs[i] = Ceiling + 1
    /\ AttemptCount(i) = Ceiling
    /\ settled[i] # <<>>
    /\ ~settled[i][1].ok

(***************************************************************************)
(* C3. Partial-failure isolation inside one league: an ingestLeagueData    *)
(* call whose matchups payload failed validation and whose standings       *)
(* payload was fetched, validated and stored does not throw: its promise   *)
(* is not rejected, and once every data type is through it is fulfilled    *)
(* with a map that holds the standings payload.                            *)
(***************************************************************************)
C3_PartialFailureIsolated ==
  \A r \in RunIds :
    (runs[r].task["matchups"] = "invalid" /\ runs[r].task["standings"] = "done")
    => /\ runs[r].st # "rejected"
       /\ runs[r].results["standings"] # NoData
       /\ (\A t \in TypeSet : runs[r].task[t] \in {"done", "invalid", "failed", "unstored"})
          => runs[r].st = "fulfilled"

(***************************************************************************)
(* C4. League isolation in bulk ingestion: ingestAllLeagues never rejects; *)
(* when it resolves, every one of its ingestLeagueData calls has settled   *)
(* and the results hold one entry per config, in the order of the configs: *)
(* the league id with the error and null data for a call that failed, the  *)
(* league id with the data and a null error for a call that succeeded.     *)
(***************************************************************************)
C4_LeagueIsolation ==
  /\ bulk.st # "rejected"
  /\ bulk.st = "resolved" =>
       /\ Len(bulk.results) = Len(bulk.configs)
       /\ \A k \in DOMAIN bulk.configs :
            LET run == runs[bulk.first + k - 1]
                res == bulk.results[k]
            IN /\ run.cfg = bulk.configs[k]
               /\ res.league = bulk.configs[k].id
               /\ run.st \in {"fulfilled", "rejected"}
               /\ run.st = "rejected" =>
                    res.error = run.error /\ res.error # "none" /\ res.data = <<>>
               /\ run.st = "fulfilled" =>
                    /\ res.error = "none"
                    /\ res.data = <<run.results>>
                    /\ \A t \in TypeSet : run.results[t] # NoData

\* two leagues were ingested: one failed while its data was fetched, the other is
\* reported with its data
C4_Witness ==
  /\ bulk.st = "resolved"
  /\ Len(bulk.results) = 2
  /\ \E j, k \in DOMAIN bulk.results :
       /\ bulk.results[j].error \in {"validation", "transport", "redis"}
       /\ bulk.results[j].data = <<>>
       /\ bulk.results[k].error = "none"
       /\ bulk.results[k].data # <<>>

(***************************************************************************)
(* C5. Cache hit suppresses call: a read issued while the cache holds a    *)
(* live entry for it, written by an earlier successful fetch, is answered  *)
(* from the cache with no transport call: an APIClient GET served from the *)
(* cache has executed no transport call, and an ingestion task started     *)
(* while redis holds its key never has a transport call executing.         *)
(***************************************************************************)
C5_CacheHitSuppressesCall ==
  /\ \A i \in ReqIds :
       (scenario = "api" /\ settled[i] # <<>> /\ settled[i][1].ok
          /\ settled[i][1].resp = NoResponseYet)
       => execs[i] = 0
  /\ \A r \in RunIds, t \in TypeSet :
       runs[r].cached[t] => runs[r].task[t] # "executing"

(***************************************************************************)
(* C6. Expired entries are absent: getCache never returns the value of an  *)
(* entry whose expiry time has passed, also when the expiry timer callback *)
(* has not run yet; it returns null instead.                               *)
(***************************************************************************)
C6_ExpiredAbsent == got.overdue => got.value = NoData

(***************************************************************************)
(* C7. Key canonicalization: two requests for the same provider, method    *)
(* and endpoint whose params and data are the same mappings at every       *)
(* depth, written in different key orders, get the same cache key.         *)
(***************************************************************************)
C7_KeyCanonical == keyA # NoKey => keyA = keyB

\* params differ in the order of their keys, at the top and inside a nested object
C7_Witness ==
  /\ keyA # NoKey
  /\ keyA = keyB
  /\ Len(descA.params.o) = 2
  /\ descA.params.o[1].k = descB.params.o[2].k
  /\ descA.params.o[1].v.t = "obj"
  /\ descA.params.o[1].v # descB.params.o[2].v
  /\ descA.data # descB.data

(***************************************************************************)
(* C8. Rate-limited upstream is retryable: in every provider client a      *)
(* failure with status 429 that arrives while attempts remain leaves the   *)
(* request unsettled and pending for another attempt.                      *)
(***************************************************************************)
C8_RateLimitRetried ==
  (seen.id # 0 /\ seen.resp.kind = "http" /\ seen.resp.status = 429
     /\ execs[seen.id] < Ceiling)
  => (settled[seen.id] = <<>> /\ Pending(seen.id))

C10_ClientErrorFailsFast ==
  /\ (seen.id # 0 /\ ClientError(seen.resp) /\ execs[seen.id] = 1)
     => /\ settled[seen.id] = <<[ok |-> FALSE, resp |-> seen.resp,
                                 attempt |-> 0, only503 |-> TRUE,
                                 value |-> NoData]>>
        /\ ~Pending(seen.id)
  /\ \A i \in ReqIds :
       (settled[i] # <<>> /\ ClientError(settled[i][1].resp) /\ settled[i][1].attempt = 0)
       => (execs[i] = 1 /\ ~Pending(i) /\ Len(settled[i]) = 1)

C10_Witness ==
  /\ seen.id # 0
  /\ seen.resp.status = 404
  /\ execs[seen.id] = 1
  /\ settled[seen.id] # <<>>
(***************************************************************************)
(* C11. Backoff is honoured: a request that failed and was scheduled for a *)
(* retry is not executing again while part of the backoff delay computed   *)
(* at that failure is still to run, whatever else is enqueued or retried   *)
(* meanwhile.  (wait is the part of the delay that has not elapsed.)       *)
(***************************************************************************)
C11_BackoffHonoured ==
  /\ \A e \in active : e.wait = 0
  /\ \A i \in ReqIds :
       (scenario \in {"api", "fetch"} /\ call[i].st \in {"queued", "running"})
       => call[i].wait = 0
(***************************************************************************)
(* C12. Exponential backoff value: the delay computed at the failure that  *)
(* leads to the retry numbered attempt (0 for the first retry) is          *)
(* base * 2^attempt: base for the first retry, and for every later retry   *)
(* twice the delay of the retry before it.                                 *)
(***************************************************************************)
BackoffBaseOf ==
  CASE scenario = "sleeper" -> 1000
    [] scenario = "api" -> BackoffBase
    [] OTHER -> FetchBackoff

C12_ExponentialBackoff ==
  /\ \A e \in SeqRange(queue) :
       (seen.id = e.id /\ e.retryCount > 0)
       => /\ e.wait = BackoffBaseOf * 2^(e.retryCount - 1)
          /\ e.retryCount = 1 => e.wait = BackoffBaseOf
          /\ e.retryCount > 1 => e.wait = 2 * (BackoffBaseOf * 2^(e.retryCount - 2))
  /\ \A i \in ReqIds :
       (seen.id = i /\ scenario \in {"api", "fetch"} /\ call[i].st = "backoff")
       => /\ call[i].wait = BackoffBaseOf * 2^call[i].attempt
          /\ call[i].attempt = 0 => call[i].wait = BackoffBaseOf
          /\ call[i].attempt > 0 => call[i].wait = 2 * (BackoffBaseOf * 2^(call[i].attempt - 1))

\* the third retry of a request has just been scheduled: four times the base
C12_Witness ==
  \/ \E e \in SeqRange(queue) :
       seen.id = e.id /\ e.retryCount = 3 /\ e.wait = 4 * BackoffBaseOf
  \/ \E i \in ReqIds :
       /\ seen.id = i
       /\ scenario = "fetch"
       /\ call[i].st = "backoff"
       /\ call[i].attempt = 2
       /\ call[i].wait = 4 * BackoffBaseOf
(***************************************************************************)
(* C13. Scenario A: with a retry ceiling of 3, a request answered 503, 503 *)
(* and then 200 is fulfilled with the payload of the 200 after exactly     *)
(* three transport executions, two of them retries.                        *)
(***************************************************************************)
C13_ScenarioA ==
  \A i \in ReqIds :
    /\ (Ceiling = 3 /\ seen.id = i /\ Is503(seen.resp) /\ execs[i] <= 2)
       => (settled[i] = <<>> /\ Pending(i))
    /\ (Ceiling = 3 /\ seen.id = i /\ IsSuccess(seen.resp) /\ execs[i] = 3
          /\ \A k \in DOMAIN settled[i] : settled[i][k].only503)
       => /\ settled[i] = <<[ok |-> TRUE, resp |-> seen.resp, attempt |-> 2,
                             only503 |-> TRUE, value |-> DataOf(i)]>>
          /\ ~Pending(i)
          /\ AttemptCount(i) = 2

C13_Witness ==
  \E i \in ReqIds :
    /\ Ceiling = 3
    /\ seen.id = i
    /\ seen.resp.status = 200
    /\ execs[i] = 3
    /\ settled[i] # <<>>
    /\ settled[i][1].only503
    /\ settled[i][1].ok
(***************************************************************************)
(* C14. Exhaustion: a failure answered to a request whose attempt counter  *)
(* has reached the ceiling (in APIClient: whose loop is at its last        *)
(* attempt) completes the request as failed, retryable or not, and the     *)
(* error the caller gets is the error of that last attempt.                *)
(***************************************************************************)
Exhausted(i) ==
  IF scenario = "api" THEN execs[i] = MaxRetries ELSE execs[i] = Ceiling + 1

C14_Exhaustion ==
  \A i \in ReqIds :
    /\ (seen.id = i /\ ~IsSuccess(seen.resp) /\ Exhausted(i))
       => /\ Len(settled[i]) = 1
          /\ ~settled[i][1].ok
          /\ ~Pending(i)
    /\ (seen.id = i /\ settled[i] # <<>>) => settled[i][Len(settled[i])].resp = seen.resp

\* the last attempt failed with a retryable 503, an earlier one with something else
C14_Witness ==
  \E i \in ReqIds :
    /\ seen.id = i
    /\ Is503(seen.resp)
    /\ Exhausted(i)
    /\ Ceiling >= 1
    /\ settled[i] # <<>>
    /\ ~settled[i][1].only503
    /\ settled[i][1].resp = seen.resp
(***************************************************************************)
(* C15. Terminal states are terminal: the promise of a request is settled  *)
(* at most once, fulfilled or rejected; a settled request has no item      *)
(* queued, waiting or executing, and no later step settles it again or     *)
(* executes it again.                                                      *)
(***************************************************************************)
C15_Settled ==
  \A i \in ReqIds :
    /\ Len(settled[i]) <= 1
    /\ settled[i] # <<>> => ~Pending(i)

C15_Step ==
  \A i \in ReqIds :
    settled[i] # <<>> => (settled[i]' = settled[i] /\ execs[i]' = execs[i] /\ ~Pending(i)')

C15_TerminalIsTerminal == [](C15_Settled) /\ [][C15_Step]_vars

\* one request was rejected after a retry and the client went on with another
C15_Witness ==
  /\ scenario = "sleeper"
  /\ \E i, j \in ReqIds :
       /\ i # j
       /\ settled[i] # <<>>
       /\ ~settled[i][1].ok
       /\ settled[i][1].attempt >= 1
       /\ seen.id = j
       /\ Pending(j)
(***************************************************************************)
(* C16. Per-provider FIFO admission: of two requests submitted to the same *)
(* limiter, the one submitted first starts executing no later than the     *)
(* other: whenever the later one has started, the earlier one has started  *)
(* too.  SleeperClient numbers its requests in the order of enqueue; the   *)
(* ingestion submits the jobs of its calls in the order of the calls and,  *)
(* within a call, in the order of the data types.                          *)
(***************************************************************************)
TypeIndex(t) == CHOOSE n \in DOMAIN DataTypes : DataTypes[n] = t
JobStarted(r, t) == runs[r].task[t] \notin {"none", "queued"}
JobBefore(r1, t1, r2, t2) == r1 < r2 \/ (r1 = r2 /\ TypeIndex(t1) < TypeIndex(t2))

C16_FifoAdmission ==
  /\ \A i, j \in ReqIds :
       (scenario = "sleeper" /\ i < j /\ execs[j] >= 1) => execs[i] >= 1
  /\ \A r1, r2 \in RunIds, t1, t2 \in TypeSet :
       (/\ runs[r1].st # "idle"
        /\ runs[r2].st # "idle"
        /\ runs[r1].cfg.provider = runs[r2].cfg.provider
        /\ JobBefore(r1, t1, r2, t2)
        /\ JobStarted(r2, t2))
       => JobStarted(r1, t1)

\* a limiter with one slot: a job has completed, the next one is executing, others wait
C16_Witness ==
  \E p \in IngestProviders :
    /\ ilimQ[p] # <<>>
    /\ irunning[p] # {}
    /\ \E r \in RunIds, t \in TypeSet :
         runs[r].cfg.provider = p /\ runs[r].task[t] \in {"done", "invalid", "failed"}
(***************************************************************************)
(* C17. No cross-provider head-of-line blocking: whether a provider's      *)
(* limiter admits its oldest waiting job depends on that provider's own    *)
(* running jobs, queue and spacing only: it can whenever a job waits, a    *)
(* slot is free and the spacing has run, whatever the other providers'     *)
(* limiters hold, and an admission leaves the other limiters as they are.  *)
(***************************************************************************)
C17_Admissible ==
  /\ \A p \in IngestProviders :
       (/\ scenario = "ingest"
        /\ ilimQ[p] # <<>>
        /\ Cardinality(irunning[p]) < LimiterMaxConcurrent(p)
        /\ ispacing[p] = 0)
       => ENABLED (IngestAdmit(p) /\ UNCHANGED <<cfgVars, commonVars, sleeperVars, apiVars,
                                                  cacheVars, keyVars>>)
  /\ \A p \in KnownProviders :
       (/\ scenario = "api"
        /\ limiterQ[p] # <<>>
        /\ Cardinality(running[p]) < MaxConcurrent
        /\ spacing[p] = 0)
       => ENABLED (Admit(p) /\ UNCHANGED <<sleeperVars, cacheVars, keyVars, ingestVars>>)

C17_Step ==
  /\ \A p \in IngestProviders :
       irunning'[p] \ irunning[p] # {}
       => \A q \in IngestProviders \ {p} :
            ilimQ'[q] = ilimQ[q] /\ irunning'[q] = irunning[q] /\ ispacing'[q] = ispacing[q]
  /\ \A p \in KnownProviders :
       running'[p] \ running[p] # {}
       => \A q \in KnownProviders \ {p} :
            limiterQ'[q] = limiterQ[q] /\ running'[q] = running[q] /\ spacing'[q] = spacing[q]

C17_NoHeadOfLineBlocking == [](C17_Admissible) /\ [][C17_Step]_vars

\* nfl is saturated and has a job waiting; a job of espn is admitted all the same
C17_Witness ==
  /\ Cardinality(irunning["nfl"]) = LimiterMaxConcurrent("nfl")
  /\ ilimQ["nfl"] # <<>>
  /\ irunning["espn"] # {}
  /\ \E j \in irunning["nfl"] : j[1] < 2
  /\ \E j \in irunning["espn"] : j[1] = 2
(***************************************************************************)
(* C18. Minimum spacing: two consecutive starts of calls for one provider  *)
(* are at least that provider's minimum spacing apart, free slots or not:  *)
(* a Bottleneck starts a job only when the spacing since its last start    *)
(* has run, and a client of a provider with a positive spacing (sleeper:   *)
(* 200 ms) never starts two calls in the same instant.                     *)
(***************************************************************************)
C18_Step ==
  /\ \A p \in IngestProviders : irunning'[p] \ irunning[p] # {} => ispacing[p] = 0
  /\ \A p \in KnownProviders : running'[p] \ running[p] # {} => spacing[p] = 0
  /\ LimiterMinTime("sleeper") > 0 => Cardinality(active' \ active) <= 1

C18_MinSpacing == [][C18_Step]_vars
(***************************************************************************)
(* C19. Pre-flight configuration failure: a request for a provider the     *)
(* client does not know, and an ingestion whose config is malformed, fail  *)
(* with a configuration error before any transport call, before the rate   *)
(* limiter is entered and before the cache is read or written.             *)
(***************************************************************************)
Malformed(cfg) == cfg.provider \notin {"yahoo", "espn", "sleeper", "nfl", "mfl"} \/ ~cfg.credentials

C19_State ==
  /\ \A i \in ReqIds :
       (scenario = "api" /\ call[i].st # "idle" /\ call[i].provider \notin KnownProviders)
       => /\ call[i].st = "thrown"
          /\ settled[i] = <<[ok |-> FALSE, resp |-> ConfigError, attempt |-> 0,
                             only503 |-> TRUE, value |-> NoData]>>
          /\ execs[i] = 0
  /\ \A r \in RunIds :
       (runs[r].st # "idle" /\ Malformed(runs[r].cfg))
       => /\ runs[r].st = "rejected"
          /\ runs[r].error = "config"
          /\ \A t \in TypeSet : runs[r].task[t] = "none" /\ runs[r].results[t] = NoData
          /\ \A q \in IngestProviders, t \in TypeSet :
               <<r, t>> \notin SeqRange(ilimQ[q]) \cup irunning[q]
          /\ \A k \in RedisKeys : redis[k].present => redis[k].value # DataOf(r)

C19_Step ==
  /\ \A i \in ReqIds :
       (/\ scenario = "api"
        /\ call[i].st = "idle"
        /\ call'[i].st # "idle"
        /\ call'[i].provider \notin KnownProviders)
       => (cache' = cache /\ limiterQ' = limiterQ /\ running' = running /\ execs' = execs)
  /\ (\E r \in RunIds : runs[r].st = "idle" /\ runs'[r].st # "idle")
     => /\ redis' = redis
        /\ \A q \in IngestProviders :
             \A j \in SeqRange(ilimQ'[q]) \ SeqRange(ilimQ[q]) : ~Malformed(runs'[j[1]].cfg)

C19_PreflightConfigFailure == [](C19_State) /\ [][C19_Step]_vars

\* a bulk call with a malformed config and a good one: the good one is being fetched
C19_Witness ==
  \E r, g \in RunIds :
    /\ runs[r].st = "rejected"
    /\ runs[r].error = "config"
    /\ Malformed(runs[r].cfg)
    /\ runs[g].st = "pending"
    /\ \E t \in TypeSet : runs[g].task[t] = "executing"
(***************************************************************************)
(* C20. Configuration errors abort the bulk call: an ingestAllLeagues call *)
(* that was given a malformed config is rejected with the configuration    *)
(* error at once; the error is not one entry of results that the call      *)
(* resolves with.                                                          *)
(***************************************************************************)
C20_ConfigErrorAbortsBulk ==
  (bulk.st # "none" /\ \E k \in DOMAIN bulk.configs : Malformed(bulk.configs[k]))
  => (bulk.st = "rejected" /\ bulk.error = "config")
(***************************************************************************)
(* C21. Persistence failure is not fatal: a data type whose payload was    *)
(* fetched and validated and whose store call then failed is still         *)
(* reported with its payload, and the store failure does not make the      *)
(* ingestion of its league fail.                                           *)
(***************************************************************************)
C21_StoreFailureNotFatal ==
  \A r \in RunIds, t \in TypeSet :
    runs[r].task[t] = "unstored"
    => /\ runs[r].results[t] # NoData
       /\ runs[r].error # "redis"
(***************************************************************************)
(* C22. Only successful reads are cached: every entry of the response      *)
(* cache is under the key of a GET and holds the data of a GET request of  *)
(* that provider whose transport call succeeded; a step writes an entry    *)
(* only when a GET is answered with success; a request of another method   *)
(* is never answered from the cache and leaves the cache as it is.         *)
(***************************************************************************)
C22_State ==
  /\ \A k \in CacheKeys :
       cache[k].present
       => /\ k[2] = "GET"
          /\ \E i \in ReqIds :
               /\ cache[k].value = DataOf(i)
               /\ call[i].provider = k[1]
               /\ call[i].method = "get"
               /\ settled[i] # <<>>
               /\ settled[i][1].ok
               /\ settled[i][1].resp.status = 200
  /\ \A i \in ReqIds :
       (scenario = "api" /\ call[i].method # "get" /\ settled[i] # <<>>)
       => settled[i][1].resp # NoResponseYet

C22_Step ==
  /\ \A k \in CacheKeys :
       (cache'[k].present /\ (~cache[k].present \/ cache'[k].value # cache[k].value))
       => /\ seen'.id # 0
          /\ seen'.resp.status = 200
          /\ call[seen'.id].method = "get"
          /\ call[seen'.id].provider = k[1]
  /\ \A i \in ReqIds :
       (/\ scenario = "api"
        /\ call'[i].method # "get"
        /\ \/ seen'.id = i
           \/ call[i].st = "idle" /\ call'[i].st # "idle")
       => cache' = cache

C22_OnlySuccessfulReadsCached == [](C22_State) /\ [][C22_Step]_vars

\* a POST has succeeded and a GET of the same provider has failed for good: no entry
C22_Witness ==
  \E i, j \in ReqIds :
    /\ scenario = "api"
    /\ call[i].method = "post"
    /\ settled[i] # <<>>
    /\ settled[i][1].ok
    /\ call[j].method = "get"
    /\ call[j].provider = call[i].provider
    /\ settled[j] # <<>>
    /\ ~settled[j][1].ok
    /\ \A k \in CacheKeys : ~cache[k].present
(***************************************************************************)
(* C23. Only validated payloads are cached: every entry of the league      *)
(* cache was stored by a data type task whose payload passed validation,   *)
(* every payload in a league's results passed validation, and every entry  *)
(* of the response cache of the API client, like every payload the client  *)
(* returns, has the shape its schema asks for.                             *)
(***************************************************************************)
C23_OnlyValidatedCached ==
  /\ \A k \in RedisKeys :
       redis[k].present
       => \E r \in RunIds, t \in TypeSet :
            /\ RedisKey(runs[r].cfg, t) = k
            /\ redis[k].value = DataOf(r)
            /\ runs[r].task[t] = "done"
  /\ \A r \in RunIds, t \in TypeSet :
       runs[r].results[t] # NoData => runs[r].task[t] = "done"
  /\ \A k \in CacheKeys, i \in ReqIds :
       (scenario = "api" /\ cache[k].present /\ cache[k].value = DataOf(i))
       => call[i].body = "valid"
  /\ \A i \in ReqIds :
       (scenario = "api" /\ settled[i] # <<>> /\ settled[i][1].ok
        /\ settled[i][1].resp # NoResponseYet)
       => call[i].body = "valid"
(***************************************************************************)
(* C24. No deduplication and last writer wins: a GET made while the cache  *)
(* has no fresh entry for its key goes to the rate limiter on its own,     *)
(* whether or not an identical GET is on its way, and every request that   *)
(* was answered by the provider has made a transport call; each GET that   *)
(* succeeds overwrites the entry of its key with its own data and a full   *)
(* time to live; a GET made while the entry is fresh is answered with the  *)
(* value of the entry and makes no transport call.                         *)
(***************************************************************************)
C24_State ==
  \A i \in ReqIds :
    (scenario = "api" /\ settled[i] # <<>> /\ settled[i][1].resp.kind \in {"http", "network"})
    => execs[i] >= 1

C24_Step ==
  /\ \A j \in ReqIds :
       (/\ scenario = "api"
        /\ call[j].st = "idle"
        /\ call'[j].st # "idle"
        /\ call'[j].method = "get"
        /\ call'[j].provider \in KnownProviders)
       => LET p == call'[j].provider
              k == <<p, "GET">>
          IN IF Fresh(cache[k])
             THEN /\ call'[j].st = "returned"
                  /\ settled'[j] = <<[ok |-> TRUE, resp |-> NoResponseYet, attempt |-> 0,
                                      only503 |-> TRUE, value |-> cache[k].value]>>
                  /\ execs' = execs
                  /\ limiterQ' = limiterQ
             ELSE /\ call'[j].st = "queued"
                  /\ limiterQ'[p] = Append(limiterQ[p], j)
                  /\ settled'[j] = <<>>
  /\ \A i \in ReqIds :
       (/\ scenario = "api"
        /\ seen'.id = i
        /\ seen'.resp.status = 200
        /\ call[i].method = "get")
       => cache'[<<call[i].provider, "GET">>] =
            [present |-> TRUE, value |-> DataOf(i), left |-> CacheTtl * 1000]

C25_State ==
  /\ \A t \in ctimers : store[t.key].present /\ store[t.key].timer = t.id
  /\ \A k \in CKeys : Cardinality({t \in ctimers : t.key = k}) <= 1
  /\ \A k \in CKeys :
       (store[k].present /\ store[k].timer # 0)
       => \E t \in ctimers : t.id = store[k].timer /\ t.key = k

\* an entry that a step puts in place of another starts with a timer of its own, or
\* with none: it never inherits the time the older entry had left
C25_Step ==
  \A k \in CKeys :
    (store'[k].present /\ store'[k] # store[k])
    => \A t \in ctimers' : t.key = k => t.left \in {ttl * 1000 : ttl \in {x \in TTLs : x > 0}}

C25_TimersDoNotLeak == [](C25_State) /\ [][C25_Step]_vars

\* an entry with a pending timer has been replaced (the handle of the new timer was
\* taken while two timers were pending) and each key has its one timer
C25_Witness ==
  /\ scenario = "cache"
  /\ Cardinality(ctimers) = 2
  /\ \E k \in CKeys : store[k].present /\ store[k].timer = 3
(***************************************************************************)
(* C26. Metric counters are consistent: the requests counter is the number *)
(* of ingestLeagueData calls made, the success counter the number of calls *)
(* that have fulfilled and the failure counter the number that have        *)
(* rejected; so success + failure <= requests, with equality when no call  *)
(* is in progress, and no step takes a counter down or counts one call     *)
(* twice.                                                                  *)
(***************************************************************************)
C26_State ==
  /\ metrics.requests = Cardinality({r \in RunIds : runs[r].st # "idle"})
  /\ metrics.success = Cardinality({r \in RunIds : runs[r].st = "fulfilled"})
  /\ metrics.failure = Cardinality({r \in RunIds : runs[r].st = "rejected"})
  /\ metrics.success + metrics.failure <= metrics.requests
  /\ (\A r \in RunIds : runs[r].st # "pending")
     => metrics.success + metrics.failure = metrics.requests

C26_Step ==
  /\ metrics'.requests >= metrics.requests
  /\ metrics'.success >= metrics.success
  /\ metrics'.failure >= metrics.failure
  /\ \A r \in RunIds :
       runs[r].st \in {"fulfilled", "rejected"} => runs'[r].st = runs[r].st

C26_MetricsConsistent == [](C26_State) /\ [][C26_Step]_vars

\* one league has been ingested, another has failed on a data type, none is in progress
C26_Witness ==
  /\ metrics = [requests |-> 2, success |-> 1, failure |-> 1]
  /\ \E r \in RunIds : runs[r].st = "rejected" /\ runs[r].error = "transport"
  /\ \A r \in RunIds : runs[r].st # "pending"
(***************************************************************************)
(* C27. Zero retry ceiling: with a configured retry limit of 0, a request  *)
(* whose first attempt fails with a retryable error is settled as failed   *)
(* by that answer, after one transport execution, and no retry of it is    *)
(* queued, executing or waiting.                                           *)
(***************************************************************************)
C27_ZeroRetryCeiling ==
  (/\ scenario \in {"sleeper", "api"}
   /\ retryCfg = 0
   /\ seen.id # 0
   /\ Transient(seen.resp)
   /\ execs[seen.id] = 1)
  => /\ settled[seen.id] # <<>>
     /\ ~settled[seen.id][1].ok
     /\ ~Pending(seen.id)
(***************************************************************************)
(* C28. No request is lost in SleeperClient: whenever the queue is not     *)
(* empty, flushing is true and exactly one flush callback is pending; a    *)
(* queue that is not empty is emptied by a flush in the end, and every     *)
(* request that was enqueued is settled in the end, once and for all.      *)
(***************************************************************************)
C28_State ==
  /\ flushing <=> Len(timers) = 1
  /\ Len(timers) <= 1
  /\ queue # <<>> => flushing

C28_Taken == (queue # <<>>) ~> (queue = <<>>)

C28_Done == \A i \in ReqIds : (submitted >= i) ~> [](Len(settled[i]) = 1)

C28_NoRequestLost == [](C28_State) /\ C28_Taken /\ C28_Done

\* a retry waits in the queue for its backoff and a new request has joined it: one
\* flush callback is pending for both
C28_Witness ==
  /\ scenario = "sleeper"
  /\ Len(queue) = 2
  /\ queue[1].retryCount > 0
  /\ queue[2].retryCount = 0
  /\ flushing
  /\ Len(timers) = 1
(***************************************************************************)
(* C29. A new request is not held back by another request's backoff: a     *)
(* request that waits in the queue of SleeperClient for its first attempt  *)
(* has a flush callback due at once, also when the pending flush was armed *)
(* by the retry of another request with that retry's backoff.              *)
(***************************************************************************)
C29_NewRequestNotHeldBack ==
  \A k \in DOMAIN queue :
    (scenario = "sleeper" /\ queue[k].retryCount = 0)
    => \E t \in DOMAIN timers : timers[t] = 0
(***************************************************************************)
(* C30. A failed league ingestion is quiescent: once ingestLeagueData has  *)
(* rejected, no task of that call moves on (no transport call is started   *)
(* or answered, no payload validated, no redis.set issued or completed),   *)
(* and no step writes a cache entry with the data of that call.            *)
(***************************************************************************)
C30_Step ==
  \A r \in RunIds :
    runs[r].st = "rejected"
    => /\ \A t \in TypeSet : runs'[r].task[t] = runs[r].task[t]
       /\ \A k \in RedisKeys :
            (redis'[k].present /\ redis'[k].value = DataOf(r))
            => (redis[k].present /\ redis[k].value = DataOf(r))

C30_FailedIngestionQuiescent == [][C30_Step]_vars
(***************************************************************************)
(* C31. Cache keys separate providers: two data type tasks that have       *)
(* stored their payload and differ in provider, league id or data type     *)
(* have stored it under different keys; and two keys of the response cache *)
(* of the API client that belong to different providers are different.     *)
(***************************************************************************)
C31_KeysSeparateProviders ==
  /\ \A r, q \in RunIds, t, u \in TypeSet :
       (/\ runs[r].task[t] = "done"
        /\ runs[q].task[u] = "done"
        /\ <<runs[r].cfg.provider, runs[r].cfg.id, t>> # <<runs[q].cfg.provider, runs[q].cfg.id, u>>)
       => RedisKey(runs[r].cfg, t) # RedisKey(runs[q].cfg, u)
  /\ \A i, j \in ReqIds :
       (scenario = "api" /\ call[i].st # "idle" /\ call[j].st # "idle"
        /\ call[i].provider # call[j].provider)
       => CacheKey(call[i].provider, call[i].method) # CacheKey(call[j].provider, call[j].method)
(***************************************************************************)
(* The for loop of APIClient.request as a function of the answers the      *)
(* provider gives to its attempts, from attempt on: the number of          *)
(* transport executions and the outcome.  The loop is still waiting when   *)
(* the answers run out before it returns or throws.                        *)
(***************************************************************************)
RECURSIVE APILoop(_, _)
APILoop(resps, attempt) ==
  IF resps = <<>>
  THEN [execs |-> attempt + 1, st |-> "waiting", resp |-> NoResponseYet]
  ELSE IF IsSuccess(Head(resps))
  THEN [execs |-> attempt + 1, st |-> "returned", resp |-> Head(resps)]
  ELSE IF APIGiveUp(attempt, Head(resps))
  THEN [execs |-> attempt + 1, st |-> "thrown", resp |-> Head(resps)]
  ELSE APILoop(Tail(resps), attempt + 1)

\* the answers a settled request of SleeperClient has had, when every answer before
\* the last was a 503
AnswersOf(rec) ==
  [k \in 1..rec.attempt |-> [kind |-> "http", status |-> 503]] \o <<rec.resp>>

(***************************************************************************)
(* C32. The two provider clients agree: when SleeperClient has settled a   *)
(* request, APIClient.request with the same configured retry limit and the *)
(* same answers of the provider makes as many transport executions and     *)
(* ends the same way, returning on the same answer or throwing the same    *)
(* error.                                                                  *)
(***************************************************************************)
C32_ClientsAgree ==
  \A i \in ReqIds :
    (scenario = "sleeper" /\ settled[i] # <<>> /\ settled[i][1].only503)
    => LET rec == settled[i][1]
           api == APILoop(AnswersOf(rec), 0)
       IN /\ api.execs = execs[i]
          /\ api.st = (IF rec.ok THEN "returned" ELSE "thrown")
          /\ api.resp = rec.resp
(***************************************************************************)
(* C33. Backoff waits hold no slot: a request of APIClient that waits out  *)
(* its backoff is not among the running jobs of any limiter, and an item   *)
(* of SleeperClient that waits in the queue for its retry is not among the *)
(* running functions of the p-limit; the slots are free for others.        *)
(***************************************************************************)
C33_BackoffHoldsNoSlot ==
  /\ \A i \in ReqIds, p \in KnownProviders :
       (scenario = "api" /\ call[i].st = "backoff") => i \notin running[p]
  /\ \A k \in DOMAIN queue, e \in active : e.id # queue[k].id

\* while one request waits out its backoff, the requests of others fill the limiter
\* of its provider up to the concurrency limit
C33_Witness ==
  \E i \in ReqIds :
    /\ scenario = "api"
    /\ call[i].st = "backoff"
    /\ call[i].wait > 0
    /\ Cardinality(running[call[i].provider]) = MaxConcurrent
(***************************************************************************)
(* C34. Non-positive TTL means indefinitely: an entry stored with          *)
(* ttl <= 0 has no expiry timer; getCache returns its value however much   *)
(* time has passed; no firing of a timer and no passing of time changes    *)
(* it, only deleteCache, clearCache or a later setCache of its key do;     *)
(* clearCache returns the number of entries there were and leaves the      *)
(* store empty.                                                            *)
(***************************************************************************)
C34_State ==
  /\ \A k \in CKeys :
       (store[k].present /\ store[k].ttl <= 0)
       => /\ store[k].timer = 0
          /\ \A t \in ctimers : t.key # k
  /\ \A k \in CKeys :
       (got.key = k /\ store[k].present) => got.value = store[k].value

\* the three ways the entry may change: deleteCache(k), clearCache(), setCache(k, ...);
\* none of them is the firing of a timer or the passing of time
C34_Step ==
  /\ \A k \in CKeys :
       (store[k].present /\ store[k].ttl <= 0 /\ store'[k] # store[k])
       => \/ /\ store' = StoreAfterDelete(store, k)
             /\ ctimers' = ctimers
          \/ /\ got'.key = "*"
             /\ \A j \in CKeys : ~store'[j].present
          \/ /\ store'[k].present
             /\ \A j \in CKeys \ {k} : store'[j] = store[j]
             /\ ctimers \subseteq ctimers'
  /\ got'.key = "*"
     => /\ got'.count = Cardinality({k \in CKeys : store[k].present})
        /\ \A k \in CKeys : ~store'[k].present
        /\ ctimers' = {}

C34_NonPositiveTtlIndefinite == [](C34_State) /\ [][C34_Step]_vars

\* getCache returns an entry stored with a negative ttl, which has no timer, while
\* the timer of the other entry is overdue
C34_Witness ==
  \E k, j \in CKeys :
    /\ scenario = "cache"
    /\ k # j
    /\ store[k].present
    /\ store[k].ttl < 0
    /\ got.key = k
    /\ got.value = store[k].value
    /\ store[j].present
    /\ \E t \in ctimers : t.key = j /\ t.left < 0
(***************************************************************************)
(* C35. Notification events are processed once and in order: at most one   *)
(* evaluateEvents loop is pending or suspended at a time; the              *)
(* eventProcessed emissions are in the order the events were queued, each  *)
(* event at most once; every event that was queued has been reported or is *)
(* still in the queue or in the hands of the loop; and while events wait   *)
(* in the queue a loop is pending or suspended to take them.               *)
(***************************************************************************)
C35_OneLoop == immediates + Len(awaiting) <= 1

C35_InOrder == \A a, b \in DOMAIN emitted : a < b => emitted[a] < emitted[b]

C35_NoneLost ==
  \A n \in 1..queuedN :
    \/ \E a \in DOMAIN emitted : emitted[a] = n
    \/ \E k \in DOMAIN eventQueue : eventQueue[k].id = n
    \/ \E k \in DOMAIN awaiting : awaiting[k].id = n

C35_LoopAlive == eventQueue # <<>> => immediates + Len(awaiting) = 1

C35_ProcessedOnceInOrder == C35_OneLoop /\ C35_InOrder /\ C35_NoneLost /\ C35_LoopAlive
====
